---- MODULE Spec2Model ----
(***************************************************************************)
(* Model of the shop endpoints of the Manga.de API (src/main.py):          *)
(* POST /products (create_product) and POST /orders (create_order), with   *)
(* the Product and Order schemas of src/schemas.py.  Requests are served   *)
(* concurrently; one step of a request is one database call together with  *)
(* the local computation that follows it.                                  *)
(*                                                                         *)
(* Money is counted in integer minor units (a float price 10.00 is 1000).  *)
(***************************************************************************)
EXTENDS Integers, Sequences, FiniteSets, TLC

\* ------------------------------------------------------------- bounds
MaxReqs == 2        \* POST /orders requests served in one behaviour
MaxItems == 2       \* longest line-item list of a request body
MaxProducts == 1    \* POST /products requests served in one behaviour

Reqs == 1..MaxReqs

\* ------------------------------------------------------------- inputs
\* An id string as a client sends it: hex24 says whether it is 24 hex
\* digits, n is the ObjectId those digits denote.
IdStr(n) == [hex24 |-> TRUE, n |-> n]
MalformedId == [hex24 |-> FALSE, n |-> 0]

\* Ids 1..MaxProducts can be generated for products; MaxProducts+1 is a
\* well-formed id that never names a product.
ProductOids == 1..MaxProducts
WellFormedIds == {IdStr(n) : n \in 1..(MaxProducts + 1)}

Quantities == {-1, 3}

\* Line items are dicts: a key may be missing.  The quantity of an item is
\* read only after its product was found, so items whose product_id is
\* missing, malformed or never generated are enumerated without quantity.
LineItems ==
    {[product_id |-> IdStr(n), quantity |-> q] : n \in ProductOids, q \in Quantities}
    \cup {[product_id |-> s] : s \in WellFormedIds \cup {MalformedId}}
    \cup {[quantity |-> 3]}

RECURSIVE SeqsUpTo(_, _)
SeqsUpTo(S, n) ==
    IF n = 0 THEN {<<>>}
    ELSE LET shorter == SeqsUpTo(S, n - 1)
         IN  shorter \cup {Append(s, x) : s \in {t \in shorter : Len(t) = n - 1}, x \in S}

ItemLists == SeqsUpTo(LineItems, MaxItems)

\* Request bodies of POST /orders that pass validation against Order:
\* user_id, items and total are required, status is optional.
OrderBodies ==
    {[user_id |-> "u1", items |-> its, total |-> 99] : its \in ItemLists}
    \cup {[user_id |-> "u1", items |-> its, total |-> 99, status |-> "shipped"] : its \in ItemLists}

\* Request bodies of POST /products (the catalog of the spec's scenarios).
ProductBodies ==
    { [title |-> "A", price |-> 1000, stock |-> 5],
      [title |-> "B", price |-> 350, stock |-> 0] }

\* ------------------------------------------------------------- helpers
\* dict.get(key, default)
Get(d, key, default) == IF key \in DOMAIN d THEN d[key] ELSE default

\* find_one's result when no document matches
None == [none |-> TRUE]

\* ------------------------------------------------------------- state
VARIABLES
    product,    \* db["product"]: _id -> document
    orders,     \* db["order"]: the documents in insertion order
    pc,         \* per request: "idle", "loop" or "done"
    order,      \* per request: the Order model (parameter `order`)
    idx,        \* per request: position of the for loop over order.items
    total,      \* per request: local `total`
    result,     \* per request: the response, or the exception raised
    lookups,    \* per request: number of find_one calls made
    cat0        \* per request: db["product"] when the request arrived

vars == <<product, orders, pc, order, idx, total, result, lookups, cat0>>

NoOrder == [user_id |-> "", items |-> <<>>, total |-> 0, status |-> ""]
NoResult == [code |-> 0, kind |-> "none", product_id |-> MalformedId,
             title |-> "", id |-> 0, total |-> 0]

\* ------------------------------------------------------------- schemas
\* Product(**body): stock defaults to 0; description and image play no part
\* in the order flow and are left out.
Product(body) ==
    [title |-> body.title, price |-> body.price, stock |-> Get(body, "stock", 0)]

\* Order(**body): status defaults to "pending".
Order(body) ==
    [user_id |-> body.user_id, items |-> body.items, total |-> body.total,
     status |-> Get(body, "status", "pending")]

\* ------------------------------------------------------------- database
\* create_document(collection_name, data): insert the model's fields as one
\* document; the generated id is the document's position.
create_document(collection, data) ==
    Append(collection, data @@ [_id |-> Len(collection) + 1])

\* db[...].find_one({"_id": id})
find_one(collection, id) ==
    IF id \in DOMAIN collection THEN collection[id] ELSE None

\* ------------------------------------------------------------- utilities
\* Mutant of oid: every string is taken for an ObjectId.
oid_lenient(id_str) == [ok |-> TRUE, value |-> id_str.n]

\* oid(id_str): ObjectId(id_str), or HTTP 400 "Invalid id"
oid(id_str) ==
    IF id_str.hex24 THEN [ok |-> TRUE, value |-> id_str.n]
    ELSE [ok |-> FALSE, value |-> 0]

\* ------------------------------------------------------------- outcomes
Raised(code, kind, id_str, title) ==
    [code |-> code, kind |-> kind, product_id |-> id_str, title |-> title,
     id |-> 0, total |-> 0]

\* HTTPException(404, f"Product {item['product_id']} not found")
NotFound(id_str) == Raised(404, "NotFound", id_str, "")
\* HTTPException(400, f"Insufficient stock for {product['title']}")
InsufficientStock(title) == Raised(400, "InsufficientStock", MalformedId, title)
\* HTTPException(status_code=400, detail="Invalid id")
InvalidId == Raised(400, "InvalidId", MalformedId, "")
\* item["product_id"] on a dict without that key: KeyError, answered as 500
ServerError == Raised(500, "KeyError", MalformedId, "")
\* {"id": new_id, "total": total}
Created(new_id, t) ==
    [code |-> 200, kind |-> "ok", product_id |-> MalformedId, title |-> "",
     id |-> new_id, total |-> t]

\* ------------------------------------------------------------- create_order
\* Mutant of StockShort: the comparison is reversed.
StockShort_reversed(p, item) == Get(p, "stock", 0) > Get(item, "quantity", 1)

\* Mutant of StockShort: a missing quantity counts as 0.
StockShort_default0(p, item) == Get(p, "stock", 0) < Get(item, "quantity", 0)

\* product.get("stock", 0) < item.get("quantity", 1)
StockShort(p, item) == Get(p, "stock", 0) < Get(item, "quantity", 1)

\* Mutant of LineCost: the quantity is left out of the product.
LineCost_unit(p, item) == Get(p, "price", 0)

\* product.get("price", 0) * item.get("quantity", 1)
LineCost(p, item) == Get(p, "price", 0) * Get(item, "quantity", 1)

\* Mutant of ItemOutcome: an item whose product is not found is skipped.
ItemOutcome_skip_missing(item, cat) ==
    IF "product_id" \notin DOMAIN item THEN [raised |-> TRUE, err |-> ServerError, cost |-> 0, queried |-> 0]
    ELSE IF ~oid(item.product_id).ok THEN [raised |-> TRUE, err |-> InvalidId, cost |-> 0, queried |-> 0]
    ELSE LET p == find_one(cat, oid(item.product_id).value)
         IN  IF p = None
                 THEN [raised |-> FALSE, err |-> NoResult, cost |-> 0, queried |-> 1]
             ELSE IF StockShort(p, item)
                 THEN [raised |-> TRUE, err |-> InsufficientStock(p.title), cost |-> 0, queried |-> 1]
             ELSE [raised |-> FALSE, err |-> NoResult, cost |-> LineCost(p, item), queried |-> 1]

\* One pass of the loop body over `item` with the catalog `cat`: the
\* exception it raises, or "pass" with the amount it adds to total.
ItemOutcome(item, cat) ==
    IF "product_id" \notin DOMAIN item THEN [raised |-> TRUE, err |-> ServerError, cost |-> 0, queried |-> 0]
    ELSE IF ~oid(item.product_id).ok THEN [raised |-> TRUE, err |-> InvalidId, cost |-> 0, queried |-> 0]
    ELSE LET p == find_one(cat, oid(item.product_id).value)
         IN  IF p = None
                 THEN [raised |-> TRUE, err |-> NotFound(item.product_id), cost |-> 0, queried |-> 1]
             ELSE IF StockShort(p, item)
                 THEN [raised |-> TRUE, err |-> InsufficientStock(p.title), cost |-> 0, queried |-> 1]
             ELSE [raised |-> FALSE, err |-> NoResult, cost |-> LineCost(p, item), queried |-> 1]

\* order.total = total
WithTotal(o, t) == [o EXCEPT !.total = t]

Init ==
    /\ product = <<>>
    /\ orders = <<>>
    /\ pc = [r \in Reqs |-> "idle"]
    /\ order = [r \in Reqs |-> NoOrder]
    /\ idx = [r \in Reqs |-> 0]
    /\ total = [r \in Reqs |-> 0]
    /\ result = [r \in Reqs |-> NoResult]
    /\ lookups = [r \in Reqs |-> 0]
    /\ cat0 = [r \in Reqs |-> <<>>]

\* POST /products
create_product(body) ==
    /\ Len(product) < MaxProducts
    /\ product' = create_document(product, Product(body))
    /\ UNCHANGED <<orders, pc, order, idx, total, result, lookups, cat0>>

\* POST /orders arrives: the body is validated into `order`, total = 0.0
create_order_begin(r, body) ==
    /\ pc[r] = "idle"
    /\ pc' = [pc EXCEPT ![r] = "loop"]
    /\ order' = [order EXCEPT ![r] = Order(body)]
    /\ idx' = [idx EXCEPT ![r] = 1]
    /\ total' = [total EXCEPT ![r] = 0]
    /\ cat0' = [cat0 EXCEPT ![r] = product]
    /\ UNCHANGED <<product, orders, result, lookups>>

\* Mutant of create_order_item: a failing item is recorded and the loop
\* goes on to the next item.
create_order_item_continue(r) ==
    /\ pc[r] = "loop"
    /\ idx[r] <= Len(order[r].items)
    /\ LET out == ItemOutcome(order[r].items[idx[r]], product)
       IN  /\ lookups' = [lookups EXCEPT ![r] = @ + out.queried]
           /\ idx' = [idx EXCEPT ![r] = @ + 1]
           /\ IF out.raised
                 THEN /\ result' = [result EXCEPT ![r] = out.err]
                      /\ UNCHANGED <<pc, total>>
                 ELSE /\ total' = [total EXCEPT ![r] = @ + out.cost]
                      /\ UNCHANGED <<pc, result>>
    /\ UNCHANGED <<product, orders, order, cat0>>

\* one iteration of `for item in order.items`
create_order_item(r) ==
    /\ pc[r] = "loop"
    /\ idx[r] <= Len(order[r].items)
    /\ LET out == ItemOutcome(order[r].items[idx[r]], product)
       IN  /\ lookups' = [lookups EXCEPT ![r] = @ + out.queried]
           /\ IF out.raised
                 THEN /\ pc' = [pc EXCEPT ![r] = "done"]
                      /\ result' = [result EXCEPT ![r] = out.err]
                      /\ UNCHANGED <<idx, total>>
                 ELSE /\ total' = [total EXCEPT ![r] = @ + out.cost]
                      /\ idx' = [idx EXCEPT ![r] = @ + 1]
                      /\ UNCHANGED <<pc, result>>
    /\ UNCHANGED <<product, orders, order, cat0>>

\* units of product id asked for by the line items of `items`
RECURSIVE UnitsOf(_, _)
UnitsOf(items, id) ==
    IF items = <<>> THEN 0
    ELSE UnitsOf(Tail(items), id)
         + (IF oid(Head(items).product_id).value = id THEN Get(Head(items), "quantity", 1) ELSE 0)

\* units of product id in the orders of `docs`
RECURSIVE UnitsSold(_, _)
UnitsSold(docs, id) ==
    IF docs = <<>> THEN 0
    ELSE UnitsSold(Tail(docs), id) + UnitsOf(Head(docs).items, id)

\* Mutant of create_order_persist: the stock of every ordered product is
\* decremented by the quantity ordered.
create_order_persist_decrement(r) ==
    /\ pc[r] = "loop"
    /\ idx[r] > Len(order[r].items)
    /\ order' = [order EXCEPT ![r] = WithTotal(@, total[r])]
    /\ orders' = create_document(orders, WithTotal(order[r], total[r]))
    /\ product' = [id \in DOMAIN product |->
                      [product[id] EXCEPT !.stock = @ - UnitsOf(order[r].items, id)]]
    /\ result' = [result EXCEPT ![r] = Created(Len(orders) + 1, total[r])]
    /\ pc' = [pc EXCEPT ![r] = "done"]
    /\ UNCHANGED <<idx, total, lookups, cat0>>

\* Mutant of create_order_persist: the insert waits until the stock covers
\* the units already ordered together with the units of this order.
create_order_persist_reserving(r) ==
    /\ pc[r] = "loop"
    /\ idx[r] > Len(order[r].items)
    /\ \A id \in DOMAIN product :
           UnitsOf(order[r].items, id) > 0 =>
               UnitsSold(orders, id) + UnitsOf(order[r].items, id) <= product[id].stock
    /\ order' = [order EXCEPT ![r] = WithTotal(@, total[r])]
    /\ orders' = create_document(orders, WithTotal(order[r], total[r]))
    /\ result' = [result EXCEPT ![r] = Created(Len(orders) + 1, total[r])]
    /\ pc' = [pc EXCEPT ![r] = "done"]
    /\ UNCHANGED <<product, idx, total, lookups, cat0>>

\* after the loop: order.total = total, insert, respond
create_order_persist(r) ==
    /\ pc[r] = "loop"
    /\ idx[r] > Len(order[r].items)
    /\ order' = [order EXCEPT ![r] = WithTotal(@, total[r])]
    /\ orders' = create_document(orders, WithTotal(order[r], total[r]))
    /\ result' = [result EXCEPT ![r] = Created(Len(orders) + 1, total[r])]
    /\ pc' = [pc EXCEPT ![r] = "done"]
    /\ UNCHANGED <<product, idx, total, lookups, cat0>>

Next ==
    \/ \E body \in ProductBodies : create_product(body)
    \/ \E r \in Reqs, body \in OrderBodies : create_order_begin(r, body)
    \/ \E r \in Reqs : create_order_item(r)
    \/ \E r \in Reqs : create_order_persist(r)

Spec == Init /\ [][Next]_vars

\* ------------------------------------------------------------- vocabulary
Done(r) == pc[r] = "done"
Succeeded(r) == Done(r) /\ result[r].kind = "ok"
Failed(r) == Done(r) /\ result[r].kind # "ok"
Items(r) == order[r].items

\* the item names, by a well-formed id, a product present in cat
RefsExisting(item, cat) ==
    /\ "product_id" \in DOMAIN item
    /\ item.product_id.hex24
    /\ item.product_id.n \in DOMAIN cat

\* the item names, by a well-formed id, a product absent from cat
RefsMissing(item, cat) ==
    /\ "product_id" \in DOMAIN item
    /\ item.product_id.hex24
    /\ item.product_id.n \notin DOMAIN cat

ProductOf(item, cat) == cat[item.product_id.n]

\* the quantity a line item asks for
Requested(item) == IF "quantity" \in DOMAIN item THEN item.quantity ELSE 1

\* the item names an existing product with enough stock
Valid(item, cat) ==
    RefsExisting(item, cat) /\ ProductOf(item, cat).stock >= Requested(item)

\* the item names an existing product with too little stock
Short(item, cat) ==
    RefsExisting(item, cat) /\ ProductOf(item, cat).stock < Requested(item)

AllValid(items, cat) == \A i \in DOMAIN items : Valid(items[i], cat)

RECURSIVE SumOf(_, _)
SumOf(items, cat) ==
    IF items = <<>> THEN 0
    ELSE SumOf(SubSeq(items, 1, Len(items) - 1), cat)
         + ProductOf(items[Len(items)], cat).price * Requested(items[Len(items)])

\* One document in order storage per successful request, found under the
\* id the response carries, and none for any other request.
OnePerSuccess ==
    /\ Len(orders) = Cardinality({r \in Reqs : Succeeded(r)})
    /\ \A r \in Reqs : Succeeded(r) => result[r].id \in DOMAIN orders
    /\ \A r, q \in Reqs : Succeeded(r) /\ Succeeded(q) /\ r # q => result[r].id # result[q].id

\* ------------------------------------------------------------- claims

\* C1: a finished request whose line items all named existing products with
\* enough stock when it arrived has succeeded; its response total is the sum
\* of price * quantity over its items, the one order persisted for it has
\* that total, not the total of the request body, and the two are equal.
C1_TotalIsSum ==
    /\ OnePerSuccess
    /\ \A r \in Reqs :
        Done(r) /\ AllValid(Items(r), cat0[r]) =>
            /\ Succeeded(r)
            /\ result[r].total = SumOf(Items(r), cat0[r])
            /\ result[r].id \in DOMAIN orders
            /\ orders[result[r].id].total = SumOf(Items(r), cat0[r])
            /\ orders[result[r].id].total = result[r].total
            /\ orders[result[r].id].items = Items(r)

C1_Witness ==
    \E r \in Reqs :
        /\ Done(r) /\ AllValid(Items(r), cat0[r])
        /\ Len(Items(r)) = 2
        /\ result[r].total = 4000
        /\ orders[result[r].id].total = 4000

\* every line item carries a well-formed product id
WellFormed(items) ==
    \A i \in DOMAIN items : "product_id" \in DOMAIN items[i] /\ items[i].product_id.hex24

\* C2 as stated, on requests whose product ids are all well-formed: a
\* finished request with a line item that names a product absent from the
\* catalog has failed with NotFound (404) for such an item, whatever the
\* stock of the products its other line items name.
C2_AsStated ==
    \A r \in Reqs :
        /\ Done(r) /\ WellFormed(Items(r))
        /\ \E i \in DOMAIN Items(r) : RefsMissing(Items(r)[i], product)
        =>
            /\ Failed(r)
            /\ result[r].kind = "NotFound"
            /\ result[r].code = 404
            /\ \E i \in DOMAIN Items(r) :
                /\ RefsMissing(Items(r)[i], product)
                /\ result[r].product_id = Items(r)[i].product_id

\* C2, amended: a finished request with a line item that names a product
\* absent from the catalog has failed and no order is persisted for it; the
\* failure is NotFound (404, with that item's id) when every earlier line
\* item named an existing product with enough stock.
C2_MissingProductFails ==
    /\ OnePerSuccess
    /\ \A r \in Reqs : \A i \in DOMAIN Items(r) :
        Done(r) /\ RefsMissing(Items(r)[i], product) =>
            /\ Failed(r)
            /\ (\A j \in 1..(i - 1) : Valid(Items(r)[j], cat0[r])) =>
                   result[r] = [code |-> 404, kind |-> "NotFound",
                                product_id |-> Items(r)[i].product_id,
                                title |-> "", id |-> 0, total |-> 0]

C2_Witness ==
    \E r \in Reqs :
        /\ Done(r) /\ Len(Items(r)) = 2
        /\ Valid(Items(r)[1], cat0[r])
        /\ RefsMissing(Items(r)[2], product)
        /\ result[r].kind = "NotFound"
        /\ orders = <<>>

\* C3 as stated, on requests whose product ids are all well-formed: a
\* finished request with a line item that asked for more than the stock of
\* its product has failed with InsufficientStock (400) for such an item.
C3_AsStated ==
    \A r \in Reqs :
        /\ Done(r) /\ WellFormed(Items(r))
        /\ \E i \in DOMAIN Items(r) : Short(Items(r)[i], cat0[r])
        =>
            /\ Failed(r)
            /\ result[r].kind = "InsufficientStock"
            /\ result[r].code = 400
            /\ \E i \in DOMAIN Items(r) :
                /\ Short(Items(r)[i], cat0[r])
                /\ result[r].title = ProductOf(Items(r)[i], cat0[r]).title

\* C3, amended: a finished request with a line item that asked for more
\* than the stock of its product has failed and no order is persisted for
\* it; the failure is InsufficientStock (400, with that product's title)
\* when every earlier line item named an existing product with enough stock.
C3_ShortStockFails ==
    /\ OnePerSuccess
    /\ \A r \in Reqs : \A i \in DOMAIN Items(r) :
        Done(r) /\ Short(Items(r)[i], cat0[r]) =>
            /\ Failed(r)
            /\ (\A j \in 1..(i - 1) : Valid(Items(r)[j], cat0[r])) =>
                   result[r] = [code |-> 400, kind |-> "InsufficientStock",
                                product_id |-> MalformedId,
                                title |-> ProductOf(Items(r)[i], cat0[r]).title,
                                id |-> 0, total |-> 0]

C3_Witness ==
    \E r \in Reqs :
        /\ Done(r) /\ Len(Items(r)) = 2
        /\ Valid(Items(r)[1], cat0[r])
        /\ Short(Items(r)[2], cat0[r])
        /\ result[r].kind = "InsufficientStock"
        /\ orders = <<>>

C5_TotalNonNegative ==
    \A k \in DOMAIN orders : orders[k].total >= 0

\* C6: every persisted order has status "pending".
C6_StatusPending ==
    \A k \in DOMAIN orders : orders[k].status = "pending"

\* ------------------------------------------------------------- steps
\* a step of create_order for request r that is past its arrival
LoopStep(r) ==
    /\ pc[r] = "loop"
    /\ <<pc[r], idx[r], total[r], result[r], lookups[r]>>
           # <<pc'[r], idx'[r], total'[r], result'[r], lookups'[r]>>

\* any step of create_order for request r
OrderStep(r) ==
    <<pc[r], idx[r], total[r], result[r], lookups[r], order[r]>>
        # <<pc'[r], idx'[r], total'[r], result'[r], lookups'[r], order'[r]>>

\* C7: a line item without quantity that names an existing product passes
\* exactly when the stock of the product is at least 1, and then adds
\* price * 1 to the total; otherwise the request fails with
\* InsufficientStock.
C7_DefaultQuantity ==
    [][ \A r \in Reqs :
          (/\ LoopStep(r)
           /\ idx[r] \in DOMAIN Items(r)
           /\ "quantity" \notin DOMAIN Items(r)[idx[r]]
           /\ RefsExisting(Items(r)[idx[r]], product))
          => LET p == ProductOf(Items(r)[idx[r]], product)
             IN  IF p.stock >= 1
                     THEN /\ pc'[r] = "loop"
                          /\ idx'[r] = idx[r] + 1
                          /\ total'[r] = total[r] + p.price * 1
                     ELSE /\ pc'[r] = "done"
                          /\ result'[r].kind = "InsufficientStock"
                          /\ total'[r] = total[r]
      ]_vars

C7_Witness ==
    \E r \in Reqs :
        /\ Succeeded(r)
        /\ Len(Items(r)) = 1
        /\ "quantity" \notin DOMAIN Items(r)[1]
        /\ ProductOf(Items(r)[1], product).stock >= 1
        /\ result[r].total = ProductOf(Items(r)[1], product).price

\* C8: no step changes a product that exists; a step of create_order leaves
\* product storage as it is altogether, appends exactly one document to
\* order storage when it ends the request in success, and leaves order
\* storage as it is otherwise.
C8_Frame ==
    [][ /\ \A id \in DOMAIN product :
              id \in DOMAIN product' /\ product'[id] = product[id]
        /\ \A r \in Reqs :
              OrderStep(r) =>
                  /\ product' = product
                  /\ IF pc'[r] = "done" /\ result'[r].kind = "ok"
                         THEN /\ Len(orders') = Len(orders) + 1
                              /\ SubSeq(orders', 1, Len(orders)) = orders
                         ELSE orders' = orders
      ]_vars

C8_Witness ==
    \E r, q \in Reqs :
        /\ Succeeded(r) /\ Len(Items(r)) > 0
        /\ Failed(q)
        /\ Len(orders) = 1
        /\ Len(product) = 1

\* C9: a request that has passed the stock check of all its line items can
\* insert its order whatever orders were inserted since the check, and a
\* request in its loop can take its next step whatever the other requests
\* are doing: nothing holds a request back between check and insert.
C9_NoLock ==
    \A r \in Reqs :
        pc[r] = "loop" =>
            IF idx[r] > Len(Items(r))
                THEN ENABLED create_order_persist(r)
                ELSE ENABLED create_order_item(r)

\* two orders are persisted for one product, each for no more than its
\* stock, together for more
C9_Witness ==
    \E r, q \in Reqs : \E id \in DOMAIN product :
        /\ r # q /\ Succeeded(r) /\ Succeeded(q)
        /\ Items(r) = <<[product_id |-> IdStr(id), quantity |-> 3]>>
        /\ Items(q) = <<[product_id |-> IdStr(id), quantity |-> 3]>>
        /\ 3 <= product[id].stock
        /\ 3 + 3 > product[id].stock
        /\ Len(orders) = 2

\* what the loop body does with one line item: the lookup comes before the
\* stock check
KindOf(item, cat) ==
    IF "product_id" \notin DOMAIN item THEN "KeyError"
    ELSE IF ~item.product_id.hex24 THEN "InvalidId"
    ELSE IF RefsMissing(item, cat) THEN "NotFound"
    ELSE IF Short(item, cat) THEN "InsufficientStock"
    ELSE "pass"

C10_Positions ==
    \A r \in Reqs :
        pc[r] # "idle" =>
            /\ lookups[r] <= idx[r]
            /\ lookups[r] <= Len(Items(r))
            /\ \A j \in 1..(idx[r] - 1) : Valid(Items(r)[j], product)
            /\ Failed(r) => idx[r] \in DOMAIN Items(r)
            /\ Succeeded(r) => idx[r] = Len(Items(r)) + 1 /\ lookups[r] = Len(Items(r))

C10_Steps ==
    \A r \in Reqs :
        LoopStep(r) =>
            IF idx[r] \in DOMAIN Items(r)
                THEN /\ orders' = orders
                     /\ IF KindOf(Items(r)[idx[r]], product) = "pass"
                            THEN /\ pc'[r] = "loop"
                                 /\ idx'[r] = idx[r] + 1
                                 /\ lookups'[r] = lookups[r] + 1
                            ELSE /\ pc'[r] = "done"
                                 /\ idx'[r] = idx[r]
                                 /\ result'[r].kind = KindOf(Items(r)[idx[r]], product)
                ELSE /\ pc'[r] = "done"
                     /\ result'[r].kind = "ok"
                     /\ Len(orders') = Len(orders) + 1

\* C10: the line items are processed in input order, one per step; the
\* request ends at the first line item that fails, with the error of that
\* item (lookup before stock check), having looked up no later item; the
\* insert happens only in the step after the last line item has passed.
C10_InOrder == []C10_Positions /\ [][C10_Steps]_vars

C10_Witness ==
    \E r \in Reqs :
        /\ Failed(r) /\ Len(Items(r)) = 2
        /\ idx[r] = 1 /\ lookups[r] = 1
        /\ result[r].kind = "InsufficientStock"
        /\ RefsMissing(Items(r)[2], product)

====
